---------------------------- MODULE Spec2Model ----------------------------
(***************************************************************************)
(* Model of terraform-provider-supabase-vault.                             *)
(*                                                                         *)
(* Two specifications share this module:                                   *)
(*   SpecConfigure  the provider's Configure handler (host string parsing, *)
(*                  pool creation, ping, publication of ProviderData);     *)
(*   Spec           the lifecycle handlers of the vault secret resource    *)
(*                  (Create, Read, Update, Delete, ImportState) running    *)
(*                  against a model of the vault.secrets table.            *)
(*                                                                         *)
(* Strings are sequences of characters. Names, values, key ids and secret  *)
(* ids are never looked into by the code, so each is a one-symbol string.  *)
(***************************************************************************)
EXTENDS Integers, Sequences, FiniteSets, TLC

VARIABLES
    version,        \* SupabaseVaultProvider.version, set by New
    pool,           \* the connection pool: "none", "open" or "closed"
    providerData,   \* *ProviderData handed to the resource: <<>> or <<[Pool, Version]>>
    db,             \* vault.secrets: row number -> <<>> (no row) or <<row>>
    nextId,         \* number of the next row the database creates
    outOfBand,      \* number of changes made to the database behind the provider
    tracked,        \* Terraform state of the instance: <<>> or <<VaultSecretModel>>
    op,             \* the handler that ran last
    prev,           \* [op, ok, req] of the handler that ran before it
    req,            \* what the last handler was asked: the plan of Create and Update,
                    \* the id of ImportState; Read and Delete get the tracked state
    diags,          \* resp.Diagnostics of the handler that ran last
    logs,           \* tflog records of the handler that ran last
    calls,          \* database / pool calls of the handler that ran last, in order,
                    \* each with the error it returned
    conn            \* connection target resolved by Configure: <<>> or <<[hostname, port, database]>>

vars == <<version, pool, providerData, db, nextId, outOfBand, tracked, op, prev,
          req, diags, logs, calls, conn>>

-----------------------------------------------------------------------------
(* strings.* of the Go standard library, on sequences of characters *)

HasPrefix(s, prefix) ==
    /\ Len(prefix) <= Len(s)
    /\ SubSeq(s, 1, Len(prefix)) = prefix

HasSuffix(s, suffix) ==
    /\ Len(suffix) <= Len(s)
    /\ SubSeq(s, Len(s) - Len(suffix) + 1, Len(s)) = suffix

TrimPrefix(s, prefix) ==
    IF HasPrefix(s, prefix) THEN SubSeq(s, Len(prefix) + 1, Len(s)) ELSE s

\* mutant: the suffix is left in place
TrimSuffixKept(s, suffix) == s

TrimSuffix(s, suffix) ==
    IF HasSuffix(s, suffix) THEN SubSeq(s, 1, Len(s) - Len(suffix)) ELSE s

\* strings.Index: position of the first occurrence of substr in s, 0 if none
Index(s, substr) ==
    LET hits == { i \in 1..(Len(s) - Len(substr) + 1) :
                    SubSeq(s, i, i + Len(substr) - 1) = substr }
    IN  IF hits = {} THEN 0 ELSE CHOOSE i \in hits : \A j \in hits : i <= j

Contains(s, substr) == Index(s, substr) # 0

\* strings.SplitN(s, sep, 2)
SplitN2(s, sep) ==
    LET i == Index(s, sep)
    IN  IF i = 0 THEN <<s>>
        ELSE <<SubSeq(s, 1, i - 1), SubSeq(s, i + Len(sep), Len(s))>>

Digits == {"0", "1", "2", "3", "4", "5", "6", "7", "8", "9"}

DigitVal(c) ==
    CASE c = "0" -> 0 [] c = "1" -> 1 [] c = "2" -> 2 [] c = "3" -> 3
      [] c = "4" -> 4 [] c = "5" -> 5 [] c = "6" -> 6 [] c = "7" -> 7
      [] c = "8" -> 8 [] c = "9" -> 9

RECURSIVE DecimalVal(_)
DecimalVal(s) ==
    IF s = <<>> THEN 0
    ELSE 10 * DecimalVal(SubSeq(s, 1, Len(s) - 1)) + DigitVal(s[Len(s)])

\* mutant: like C's atoi, the leading digits are the number and what follows
\* them is ignored
ParseIntLeadingDigits(s) ==
    LET n == CHOOSE k \in 0..Len(s) :
                 /\ \A i \in 1..k : s[i] \in Digits
                 /\ k < Len(s) => s[k + 1] \notin Digits
    IN  IF n = 0 THEN [ok |-> FALSE, val |-> 0]
        ELSE [ok |-> TRUE, val |-> DecimalVal(SubSeq(s, 1, n))]

\* strconv.ParseInt(s, 10, 64): [ok, val]. An optional sign, then one or more
\* decimal digits. The digit strings of the model are at most a few digits
\* long, so the 64-bit range error cannot arise.
ParseInt(s) ==
    LET signed == s # <<>> /\ s[1] \in {"+", "-"}
        body   == IF signed THEN Tail(s) ELSE s
    IN  IF body = <<>> \/ \E i \in 1..Len(body) : body[i] \notin Digits
        THEN [ok |-> FALSE, val |-> 0]
        ELSE [ok |-> TRUE,
              val |-> IF signed /\ s[1] = "-" THEN 0 - DecimalVal(body)
                      ELSE DecimalVal(body)]

-----------------------------------------------------------------------------
(* types.String and types.Int64 of the plugin framework *)

\* A types.String is null, unknown (a computed attribute the plan has no value
\* for yet) or a known string.
StringNull == [null |-> TRUE, unknown |-> FALSE, s |-> <<>>]
StringUnknown == [null |-> FALSE, unknown |-> TRUE, s |-> <<>>]
StringValue(str) == [null |-> FALSE, unknown |-> FALSE, s |-> str]
Int64Null == [null |-> TRUE, v |-> 0]
Int64Value(n) == [null |-> FALSE, v |-> n]

\* sql.NullString
NullStringNull == [Valid |-> FALSE, String |-> <<>>]
NullStringOf(str) == [Valid |-> TRUE, String |-> str]

-----------------------------------------------------------------------------
(* Diagnostics, log records and calls collected while one handler runs.    *)
(* A formatted message is the sequence of its pieces: the fixed text and   *)
(* the values formatted into it.                                           *)

ErrorDiag(summary, detail) ==
    [severity |-> "error", summary |-> summary, detail |-> detail]

HasError(ds) == \E i \in 1..Len(ds) : ds[i].severity = "error"

LogRecord(level, msg) == [level |-> level, msg |-> msg]

Call(fn, sql, args, err) == [fn |-> fn, sql |-> sql, args |-> args, err |-> err]

-----------------------------------------------------------------------------
(* Provider configuration *)

MaxSecrets == 1
MaxOutOfBand == 1

DefaultPort == 5432
DefaultDatabase == <<"p", "o", "s", "t", "g", "r", "e", "s">>

SchemeHttps == <<"h", "t", "t", "p", "s", ":", "/", "/">>
SchemeHttp == <<"h", "t", "t", "p", ":", "/", "/">>
SchemePostgres == <<"p", "o", "s", "t", "g", "r", "e", "s", ":", "/", "/">>
SchemePostgresql == <<"p", "o", "s", "t", "g", "r", "e", "s", "q", "l", ":", "/", "/">>

\* Configure, "Set defaults" up to "Build connection string": the hostname,
\* port and database that go into the connection string.
ResolveTarget(data) ==
    LET port     == IF ~data.Port.null THEN data.Port.v ELSE DefaultPort
        database == IF ~data.Database.null THEN data.Database.s ELSE DefaultDatabase
        h1       == TrimPrefix(data.Host.s, SchemeHttps)
        h2       == TrimPrefix(h1, SchemeHttp)
        h3       == TrimPrefix(h2, SchemePostgres)
        h4       == TrimPrefix(h3, SchemePostgresql)
        host     == TrimSuffix(h4, <<"/">>)
    IN  IF Contains(host, <<":">>)
        THEN LET parts     == SplitN2(host, <<":">>)
                 remaining == parts[2]
             IN  IF Contains(remaining, <<"/">>)
                 THEN LET dbParts == SplitN2(remaining, <<"/">>)
                          portStr == dbParts[1]
                          dbName  == dbParts[2]
                      IN  [hostname |-> parts[1],
                           port     |-> IF portStr # <<>> /\ ParseInt(portStr).ok
                                        THEN ParseInt(portStr).val ELSE port,
                           database |-> IF dbName # <<>> THEN dbName ELSE database]
                 ELSE [hostname |-> parts[1],
                       port     |-> IF remaining # <<>> /\ ParseInt(remaining).ok
                                    THEN ParseInt(remaining).val ELSE port,
                       database |-> database]
        ELSE IF Contains(host, <<"/">>)
        THEN LET parts == SplitN2(host, <<"/">>)
             IN  [hostname |-> parts[1],
                  port     |-> port,
                  database |-> IF parts[2] # <<>> THEN parts[2] ELSE database]
        ELSE [hostname |-> host, port |-> port, database |-> database]

PoolTimeoutDetail ==
    <<"Connection timeout: unable to create connection pool within 10 seconds. Please check your connection settings and network connectivity.">>
PingTimeoutDetail ==
    <<"Connection timeout: unable to ping database within 10 seconds. Please check your connection settings and network connectivity.">>

\* What pgxpool.New or pool.Ping can return under its 10 second context:
\* the error (NoErr for nil) and the Err() of that context afterwards.
NoErr == "nil"
CallOutcomes ==
    { [err |-> NoErr, ctxErr |-> "nil"],
      [err |-> "context deadline exceeded", ctxErr |-> "DeadlineExceeded"],
      [err |-> "connection refused", ctxErr |-> "nil"],
      [err |-> "password authentication failed", ctxErr |-> "nil"],
      [err |-> "context canceled", ctxErr |-> "Canceled"] }

\* Configure, the detail of the diagnostic for a failed pgxpool.New
NewErrorDetail(newRes) ==
    IF newRes.ctxErr = "DeadlineExceeded"
    THEN PoolTimeoutDetail
    ELSE <<"Unable to create connection pool: ", newRes.err>>

\* mutant: the ping branch looks at the context of pgxpool.New, which has
\* not expired
PingErrorDetailOtherContext(pingRes) ==
    <<"Unable to ping database: ", pingRes.err>>

\* Configure, the detail of the diagnostic for a failed pool.Ping
PingErrorDetail(pingRes) ==
    IF pingRes.ctxErr = "DeadlineExceeded"
    THEN PingTimeoutDetail
    ELSE <<"Unable to ping database: ", pingRes.err>>

\* mutant: the provider data is published once the pool exists, before the
\* ping has answered
ConfigurePublishesBeforePing(data, newRes, pingRes) ==
    /\ op = "none"
    /\ pool = "none"
    /\ LET target  == ResolveTarget(data)
           newCall == Call("pgxpool.New", "", <<target>>, newRes.err)
       IN  /\ conn' = <<target>>
           /\ req' = [Config |-> data, new |-> newRes, ping |-> pingRes]
           /\ IF newRes.err # NoErr
              THEN /\ diags' = <<ErrorDiag("Unable to connect to PostgreSQL",
                                             NewErrorDetail(newRes))>>
                   /\ calls' = <<newCall>>
                   /\ pool' = "none"
                   /\ logs' = <<>>
                   /\ providerData' = <<>>
              ELSE IF pingRes.err # NoErr
              THEN /\ diags' = <<ErrorDiag("Unable to connect to PostgreSQL",
                                             PingErrorDetail(pingRes))>>
                   /\ calls' = <<newCall, Call("Ping", "", <<>>, pingRes.err), Call("Close", "", <<>>, NoErr)>>
                   /\ pool' = "closed"
                   /\ logs' = <<>>
                   /\ providerData' = <<[Pool |-> "closed", Version |-> version]>>
              ELSE /\ diags' = <<>>
                   /\ calls' = <<newCall, Call("Ping", "", <<>>, NoErr)>>
                   /\ pool' = "open"
                   /\ logs' = <<LogRecord("info", "Successfully connected to PostgreSQL database")>>
                   /\ providerData' = <<[Pool |-> "open", Version |-> version]>>
    /\ op' = "Configure"
    /\ prev' = [op |-> op, ok |-> TRUE, req |-> req]
    /\ UNCHANGED <<version, db, nextId, outOfBand, tracked>>

\* SupabaseVaultProvider.Configure
Configure(data, newRes, pingRes) ==
    /\ op = "none"
    /\ pool = "none"
    /\ LET target  == ResolveTarget(data)
           newCall == Call("pgxpool.New", "", <<target>>, newRes.err)
       IN  /\ conn' = <<target>>
           /\ req' = [Config |-> data, new |-> newRes, ping |-> pingRes]
           /\ IF newRes.err # NoErr
              THEN /\ diags' = <<ErrorDiag("Unable to connect to PostgreSQL",
                                             NewErrorDetail(newRes))>>
                   /\ calls' = <<newCall>>
                   /\ pool' = "none"
                   /\ logs' = <<>>
                   /\ providerData' = <<>>
              ELSE IF pingRes.err # NoErr
              THEN /\ diags' = <<ErrorDiag("Unable to connect to PostgreSQL",
                                             PingErrorDetail(pingRes))>>
                   /\ calls' = <<newCall, Call("Ping", "", <<>>, pingRes.err), Call("Close", "", <<>>, NoErr)>>
                   /\ pool' = "closed"
                   /\ logs' = <<>>
                   /\ providerData' = <<>>
              ELSE /\ diags' = <<>>
                   /\ calls' = <<newCall, Call("Ping", "", <<>>, NoErr)>>
                   /\ pool' = "open"
                   /\ logs' = <<LogRecord("info", "Successfully connected to PostgreSQL database")>>
                   /\ providerData' = <<[Pool |-> "open", Version |-> version]>>
    /\ op' = "Configure"
    /\ prev' = [op |-> op, ok |-> TRUE, req |-> req]
    /\ UNCHANGED <<version, db, nextId, outOfBand, tracked>>

-----------------------------------------------------------------------------
(* Inputs of Configure *)

\* the release that runs, and an earlier release that may have written footers
Versions == { <<"1", ".", "1">> }
EarlierVersion == <<"1", ".", "0">>

Schemes == { <<>>, SchemeHttps, SchemeHttp, SchemePostgres, SchemePostgresql }

HostNames ==
    { <<"d", "b", ".", "e", "x", "a", "m", "p", "l", "e", ".", "c", "o">>,
      <<"p", "o", "s", "t", "g", "r", "e", "s">> }

\* an embedded port that is a number: its text and the number it denotes
NumericPorts ==
    { [text |-> <<"6", "5", "4", "3">>, number |-> 6543],
      [text |-> <<"0", "8", "0">>, number |-> 80] }
MalformedPorts == { <<"5", "4", "a">>, <<"p">> }
DatabaseNames == { <<"m", "y", "d", "b">>, <<"5", "4", "3", "2">> }

\* An optional part of a host string: <<>> (left out) or <<text>>
Optional(S) == { <<>> } \cup { <<x>> : x \in S }

\* scheme hostname [:port] [/database] [/]
HostString(scheme, hostname, port, database, slash) ==
    scheme \o hostname
      \o (IF port = <<>> THEN <<>> ELSE <<":">> \o port[1])
      \o (IF database = <<>> THEN <<>> ELSE <<"/">> \o database[1])
      \o (IF slash THEN <<"/">> ELSE <<>>)

HostStrings ==
    { HostString(sc, h, p, d, sl) :
        sc \in Schemes, h \in HostNames,
        p \in Optional({ np.text : np \in NumericPorts } \cup MalformedPorts),
        d \in Optional(DatabaseNames), sl \in BOOLEAN }

ProviderConfigs ==
    [ Host     : { StringValue(h) : h \in HostStrings },
      Port     : { Int64Null, Int64Value(5432), Int64Value(6000) },
      Database : { StringNull, StringValue(DefaultDatabase), StringValue(<<"a", "p", "p">>) } ]

InitCommon ==
    /\ version \in Versions
    /\ op = "none"
    /\ prev = [op |-> "none", ok |-> TRUE, req |-> <<>>]
    /\ req = <<>>
    /\ diags = <<>>
    /\ logs = <<>>
    /\ calls = <<>>
    /\ db = {}
    /\ nextId = 1
    /\ outOfBand = 0
    /\ tracked = <<>>

InitConfigure ==
    /\ InitCommon
    /\ pool = "none"
    /\ providerData = <<>>
    /\ conn = <<>>

\* pool.Ping runs only on a pool that pgxpool.New returned
NextConfigure ==
    /\ op = "none"
    /\ \E data \in ProviderConfigs, newRes \in CallOutcomes, pingRes \in CallOutcomes :
          /\ newRes.err # NoErr => pingRes.err = NoErr
          /\ Configure(data, newRes, pingRes)

SpecConfigure == InitConfigure /\ [][NextConfigure]_vars

-----------------------------------------------------------------------------
(* The vault secret resource *)

\* fmt.Sprintf("\n\n---\nManaged by terraform-provider-supabase-vault v%s", version)
FooterText(v) ==
    <<"\n", "\n", "-", "-", "-", "\n">>
      \o <<
       "M", "a", "n", "a", "g", "e", "d", " ", "b", "y", " ", "t",
       "e", "r", "r", "a", "f", "o", "r", "m", "-", "p", "r", "o",
       "v", "i", "d", "e", "r", "-", "s", "u", "p", "a", "b", "a",
       "s", "e", "-", "v", "a", "u", "l", "t", " ", "v" >>
      \o v

\* mutant: the footer is joined to the description by one newline
appendManagedByFooterOneNewline(description, v) ==
    IF description = <<>>
    THEN TrimPrefix(FooterText(v), <<"\n", "\n">>)
    ELSE description \o Tail(FooterText(v))

appendManagedByFooter(description, v) ==
    IF description = <<>>
    THEN TrimPrefix(FooterText(v), <<"\n", "\n">>)
    ELSE description \o FooterText(v)

\* the footer up to the version: what the footers of all versions share
FooterMarker == FooterText(<<>>)

\* mutant: the footer of any provider version is cut off
ReadDescriptionAnyVersion(description, v) ==
    IF description # <<>>
    THEN StringValue(IF Contains(description, FooterMarker)
                     THEN SubSeq(description, 1, Index(description, FooterMarker) - 1)
                     ELSE description)
    ELSE StringNull

\* Read, "Remove the managed-by footer from description if present":
\* the types.String stored in data.Description for a scanned description
ReadDescription(description, v) ==
    IF description # <<>>
    THEN StringValue(TrimSuffix(description, FooterText(v)))
    ELSE StringNull

\* data.KeyID for a scanned sql.NullString (Create and Read)
KeyIDFrom(keyID) ==
    IF keyID.Valid THEN StringValue(keyID.String) ELSE StringNull

ErrNoRows == "no rows in result set"

\* the UUID the database gives the n-th row it creates
NewSecretID(n) == <<ToString(n)>>

CreateSQL == "SELECT vault.create_secret($1, $2, $3)"
KeyIDSQL == "SELECT key_id FROM vault.secrets WHERE id = $1"
ReadSQL == "SELECT id, name, description, key_id FROM vault.secrets WHERE id = $1"
UpdateSQL == "SELECT vault.update_secret($1, $2, $3, $4)"
DeleteSQL == "DELETE FROM vault.secrets WHERE id = $1"
ImportSQL == "SELECT id FROM vault.decrypted_secrets WHERE name = $1"

\* vault.secrets rows: [id, name, secret, description, key_id]; name is unique
RowsById(id) == { r \in db : r.id = id }
RowsByName(name) == { r \in db : r.name = name }

Ok == ~HasError(diags)
Step(name) ==
    /\ op' = name
    /\ prev' = [op |-> op, ok |-> Ok, req |-> req]

Configured == providerData # <<>>

\* mutant: a requested key_id is kept in the saved state
CreatedKeyIDKeepsRequested(plan, dbKey, keyErr) ==
    IF ~plan.KeyID.null THEN plan.KeyID
    ELSE IF keyErr # NoErr THEN StringNull ELSE KeyIDFrom(dbKey)

\* mutant: a failed lookup leaves the key_id as the plan has it
CreatedKeyIDLeavesPlanned(plan, dbKey, keyErr) ==
    IF keyErr # NoErr THEN plan.KeyID ELSE KeyIDFrom(dbKey)

\* Create, "Read key_id from database to ensure it's a known value": the
\* data.KeyID that is saved
CreatedKeyID(plan, dbKey, keyErr) ==
    IF keyErr # NoErr THEN StringNull ELSE KeyIDFrom(dbKey)

\* The plan of a create: key_id is Optional and Computed and there is no state
\* to take it from, so it is unknown when the configuration sets none.
CreatePlan(config) ==
    [config EXCEPT !.KeyID = IF config.KeyID.null THEN StringUnknown ELSE config.KeyID]

\* VaultSecretResource.Create. plan: the planned Name, Value, KeyID and
\* Description; createErr, keyErr: what the two statements fail with (NoErr:
\* they do not); dbKey: the key_id the database gives the new row.
Create(plan, createErr, dbKey, keyErr) ==
    /\ Configured
    /\ tracked = <<>>
    /\ nextId <= MaxSecrets
    /\ LET description == IF ~plan.Description.null THEN plan.Description.s ELSE <<>>
           descriptionWithFooter ==
               appendManagedByFooter(description, providerData[1].Version)
           warned == IF ~plan.KeyID.null
                     THEN <<LogRecord("warn", "key_id parameter is not yet fully supported in create operation")>>
                     ELSE <<>>
           err == IF createErr # NoErr THEN createErr
                  ELSE IF RowsByName(plan.Name.s) # {}
                  THEN "duplicate key value violates unique constraint"
                  ELSE NoErr
           createCall == Call("QueryRow", CreateSQL,
                              <<plan.Value.s, plan.Name.s, descriptionWithFooter>>, err)
           secretID == NewSecretID(nextId)
       IN  /\ req' = [Plan |-> plan]
           /\ IF err # NoErr
              THEN /\ diags' = <<ErrorDiag("Unable to create vault secret",
                                           <<"Error calling vault.create_secret: ", err>>)>>
                   /\ calls' = <<createCall>>
                   /\ logs' = warned
                   /\ UNCHANGED <<db, nextId, tracked>>
              ELSE /\ db' = db \cup { [id |-> secretID, name |-> plan.Name.s,
                                       secret |-> plan.Value.s,
                                       description |-> descriptionWithFooter,
                                       key_id |-> dbKey] }
                   /\ nextId' = nextId + 1
                   /\ calls' = <<createCall, Call("QueryRow", KeyIDSQL, <<secretID>>, keyErr)>>
                   /\ diags' = <<>>
                   /\ logs' = warned \o
                        (IF keyErr # NoErr
                         THEN <<LogRecord("warn", "Unable to read key_id after creation, setting to null")>>
                         ELSE <<>>)
                        \o <<LogRecord("trace", "created a vault secret")>>
                   /\ tracked' = <<[ID |-> StringValue(secretID),
                                    Name |-> plan.Name,
                                    Value |-> plan.Value,
                                    KeyID |-> CreatedKeyID(plan, dbKey, keyErr),
                                    Description |-> plan.Description]>>
    /\ Step("Create")
    /\ UNCHANGED <<version, pool, providerData, outOfBand, conn>>

\* mutant: a missing row is reported like any other query error
ReadNotFoundAsError ==
    /\ diags' = <<ErrorDiag("Unable to read vault secret metadata",
                            <<"Error reading secret metadata: ", ErrNoRows>>)>>
    /\ UNCHANGED tracked

\* Read, "Secret not found, mark as removed"
ReadNotFound ==
    /\ tracked' = <<>>
    /\ diags' = <<>>

\* mutant: the value is refreshed from the row as well
ReadModelFetchesValue(data, row, v) ==
    [data EXCEPT !.Name = StringValue(row.name),
                 !.Value = StringValue(row.secret),
                 !.KeyID = KeyIDFrom(row.key_id),
                 !.Description = ReadDescription(row.description, v)]

\* Read, "Update state with metadata (but not the secret value - it stays in
\* state)": the model that is saved for the scanned row
ReadModel(data, row, v) ==
    [data EXCEPT !.Name = StringValue(row.name),
                 !.KeyID = KeyIDFrom(row.key_id),
                 !.Description = ReadDescription(row.description, v)]

\* VaultSecretResource.Read. readErr: what the query fails with (NoErr: it
\* does not, and finds the row or pgx.ErrNoRows).
Read(readErr) ==
    /\ Configured
    /\ tracked # <<>>
    /\ LET data == tracked[1]
           rows == RowsById(data.ID.s)
           err  == IF readErr # NoErr THEN readErr
                   ELSE IF rows = {} THEN ErrNoRows ELSE NoErr
       IN  /\ req' = <<>>
           /\ calls' = <<Call("QueryRow", ReadSQL, <<data.ID.s>>, err)>>
           /\ logs' = <<>>
           /\ IF err = ErrNoRows
              THEN ReadNotFound
              ELSE IF err # NoErr
              THEN /\ diags' = <<ErrorDiag("Unable to read vault secret metadata",
                                           <<"Error reading secret metadata: ", err>>)>>
                   /\ UNCHANGED tracked
              ELSE LET row == CHOOSE r \in rows : TRUE
                   IN  /\ diags' = <<>>
                       /\ tracked' = <<ReadModel(data, row, providerData[1].Version)>>
    /\ Step("Read")
    /\ UNCHANGED <<version, pool, providerData, db, nextId, outOfBand, conn>>

\* mutant: the id has no UseStateForUnknown and is unknown in the plan
UpdatePlanWithoutStateID(config, state) ==
    [ID |-> StringUnknown,
     Name |-> config.Name,
     Value |-> config.Value,
     KeyID |-> IF config.KeyID.null THEN state.KeyID ELSE config.KeyID,
     Description |-> config.Description]

\* The plan of an update: id and key_id carry UseStateForUnknown, so the plan
\* takes the id of the state, and the key_id of the state when the
\* configuration sets none.
UpdatePlan(config, state) ==
    [ID |-> state.ID,
     Name |-> config.Name,
     Value |-> config.Value,
     KeyID |-> IF config.KeyID.null THEN state.KeyID ELSE config.KeyID,
     Description |-> config.Description]

\* VaultSecretResource.Update
Update(config, updateErr) ==
    /\ Configured
    /\ tracked # <<>>
    /\ LET state == tracked[1]
           data  == UpdatePlan(config, state)
           description == IF ~data.Description.null THEN data.Description.s ELSE <<>>
           descriptionWithFooter ==
               appendManagedByFooter(description, providerData[1].Version)
           rows == RowsById(state.ID.s)
           err  == IF updateErr # NoErr THEN updateErr
                   ELSE IF rows # {} /\ RowsByName(data.Name.s) \ rows # {}
                   THEN "duplicate key value violates unique constraint"
                   ELSE NoErr
       IN  /\ req' = [Plan |-> data]
           /\ calls' = <<Call("Exec", UpdateSQL,
                              <<state.ID.s, data.Value.s, data.Name.s, descriptionWithFooter>>, err)>>
           /\ IF err # NoErr
              THEN /\ diags' = <<ErrorDiag("Unable to update vault secret",
                                           <<"Error calling vault.update_secret: ", err>>)>>
                   /\ logs' = <<>>
                   /\ UNCHANGED <<db, tracked>>
              ELSE /\ db' = (db \ rows) \cup
                              { [r EXCEPT !.secret = data.Value.s,
                                          !.name = data.Name.s,
                                          !.description = descriptionWithFooter] : r \in rows }
                   /\ diags' = <<>>
                   /\ logs' = <<LogRecord("trace", "updated a vault secret")>>
                   /\ tracked' = <<data>>
    /\ Step("Update")
    /\ UNCHANGED <<version, pool, providerData, nextId, outOfBand, conn>>

\* mutant: the state is dropped although the DELETE failed
DeleteFailedDropsState(deleteErr) ==
    /\ diags' = <<ErrorDiag("Unable to delete vault secret",
                            <<"Error deleting secret: ", deleteErr>>)>>
    /\ logs' = <<>>
    /\ tracked' = <<>>
    /\ UNCHANGED db

\* Delete, the DELETE returned an error
DeleteFailed(deleteErr) ==
    /\ diags' = <<ErrorDiag("Unable to delete vault secret",
                            <<"Error deleting secret: ", deleteErr>>)>>
    /\ logs' = <<>>
    /\ UNCHANGED <<db, tracked>>

\* VaultSecretResource.Delete; the framework drops the state when Delete
\* returns without an error diagnostic.
Delete(deleteErr) ==
    /\ Configured
    /\ tracked # <<>>
    /\ LET data == tracked[1]
       IN  /\ req' = <<>>
           /\ calls' = <<Call("Exec", DeleteSQL, <<data.ID.s>>, deleteErr)>>
           /\ IF deleteErr # NoErr
              THEN DeleteFailed(deleteErr)
              ELSE /\ db' = db \ RowsById(data.ID.s)
                   /\ diags' = <<>>
                   /\ logs' = <<LogRecord("trace", "deleted a vault secret")>>
                   /\ tracked' = <<>>
    /\ Step("Delete")
    /\ UNCHANGED <<version, pool, providerData, nextId, outOfBand, conn>>

\* mutant: the name is written to the state although the lookup found no row
ImportNotFoundSeedsName(secretName) ==
    /\ diags' = <<ErrorDiag("Secret not found",
                            <<"No secret found with name: ", secretName>>)>>
    /\ tracked' = <<[ID |-> StringNull,
                     Name |-> StringValue(secretName),
                     Value |-> StringNull,
                     KeyID |-> StringNull,
                     Description |-> StringNull]>>

\* ImportState, the lookup found no row
ImportNotFound(secretName) ==
    /\ diags' = <<ErrorDiag("Secret not found",
                            <<"No secret found with name: ", secretName>>)>>
    /\ UNCHANGED tracked

\* mutant: the import id is passed through as the id of the state
ImportedStatePassthroughID(secretID, secretName) ==
    [ID |-> StringValue(secretName),
     Name |-> StringValue(secretName),
     Value |-> StringNull,
     KeyID |-> StringNull,
     Description |-> StringNull]

\* ImportState, "Set the ID so Terraform can read the resource": the state
\* with the two attributes set
ImportedState(secretID, secretName) ==
    [ID |-> StringValue(secretID),
     Name |-> StringValue(secretName),
     Value |-> StringNull,
     KeyID |-> StringNull,
     Description |-> StringNull]

\* VaultSecretResource.ImportState. The import fills a state of its own that
\* starts empty: when it succeeds that state is the tracked one from then
\* on; when it fails there is no new state and nothing tracked changes.
ImportState(secretName, importErr) ==
    /\ Configured
    /\ LET rows == RowsByName(secretName)
           err  == IF importErr # NoErr THEN importErr
                   ELSE IF rows = {} THEN ErrNoRows ELSE NoErr
       IN  /\ req' = [ID |-> secretName]
           /\ calls' = <<Call("QueryRow", ImportSQL, <<secretName>>, err)>>
           /\ logs' = <<>>
           /\ IF err = ErrNoRows
              THEN ImportNotFound(secretName)
              ELSE IF err # NoErr
              THEN /\ diags' = <<ErrorDiag("Unable to import vault secret",
                                           <<"Error looking up secret by name: ", err>>)>>
                   /\ UNCHANGED tracked
              ELSE LET row == CHOOSE r \in rows : TRUE
                   IN  /\ diags' = <<>>
                       /\ tracked' = <<ImportedState(row.id, secretName)>>
    /\ Step("ImportState")
    /\ UNCHANGED <<version, pool, providerData, db, nextId, outOfBand, conn>>

-----------------------------------------------------------------------------
(* Changes made to vault.secrets by others, between two handlers *)

OutOfBandStep ==
    /\ outOfBand < MaxOutOfBand
    /\ outOfBand' = outOfBand + 1
    /\ Step("OutOfBand")
    /\ req' = <<>>
    /\ diags' = <<>>
    /\ logs' = <<>>
    /\ calls' = <<>>
    /\ UNCHANGED <<version, pool, providerData, nextId, tracked, conn>>

OutOfBandDelete(row) ==
    /\ db' = db \ {row}
    /\ OutOfBandStep

OutOfBandSetSecret(row) ==
    /\ row.secret # <<"v-oob">>
    /\ db' = (db \ {row}) \cup { [row EXCEPT !.secret = <<"v-oob">>] }
    /\ OutOfBandStep

OutOfBandSetDescription(row, description) ==
    /\ row.description # description
    /\ db' = (db \ {row}) \cup { [row EXCEPT !.description = description] }
    /\ OutOfBandStep

-----------------------------------------------------------------------------
(* Inputs of the resource handlers *)

Names == { <<"n1">>, <<"n2">> }
PlannedNames == { <<"n1">> }
Values == { <<"v1">> }
UserDescriptions == { <<"m", "y">> }
RequestedKeyIDs == { StringNull, StringValue(<<"k-req">>) }
DatabaseKeyIDs == { NullStringNull, NullStringOf(<<"k-db">>) }
DatabaseErrors == { "connection reset by peer" }
MaybeErr == { NoErr } \cup DatabaseErrors

Plans ==
    [ Name : { StringValue(n) : n \in PlannedNames },
      Value : { StringValue(v) : v \in Values },
      KeyID : RequestedKeyIDs,
      Description : { StringNull, StringValue(<<>>) }
                      \cup { StringValue(d) : d \in UserDescriptions } ]

\* descriptions others may store: none, one without footer, one with the
\* footer of another provider version, and nothing but the full footer of
\* the running version
OutOfBandDescriptions ==
    { <<>>, <<"m", "y">> }
      \cup { <<"m", "y">> \o FooterText(EarlierVersion) }
      \cup { FooterText(v) : v \in Versions }

Init ==
    /\ InitCommon
    /\ pool = "open"
    /\ providerData = <<[Pool |-> "open", Version |-> version]>>
    /\ conn = <<>>

Next ==
    \/ \E config \in Plans, createErr \in MaybeErr, dbKey \in DatabaseKeyIDs, keyErr \in MaybeErr :
          /\ createErr # NoErr => (keyErr = NoErr /\ dbKey = NullStringNull)
          /\ Create(CreatePlan(config), createErr, dbKey, keyErr)
    \/ \E readErr \in MaybeErr : Read(readErr)
    \/ \E config \in Plans, updateErr \in MaybeErr : Update(config, updateErr)
    \/ \E deleteErr \in MaybeErr : Delete(deleteErr)
    \/ \E secretName \in Names, importErr \in MaybeErr : ImportState(secretName, importErr)
    \/ \E row \in db : OutOfBandDelete(row)
    \/ \E row \in db : OutOfBandSetSecret(row)
    \/ \E row \in db, description \in OutOfBandDescriptions :
          OutOfBandSetDescription(row, description)

Spec == Init /\ [][Next]_vars

-----------------------------------------------------------------------------
(* Properties of Configure, under SpecConfigure *)

ExampleHost ==
    SchemeHttps \o <<"d", "b", ".", "e", "x", "a", "m", "p", "l", "e", ".", "c", "o">>
      \o <<":", "6", "5", "4", "3", "/", "m", "y", "d", "b", "/">>

\* the port and database the configuration block asks for
ConfiguredPort == IF req.Config.Port.null THEN 5432 ELSE req.Config.Port.v
ConfiguredDatabase ==
    IF req.Config.Database.null THEN <<"p", "o", "s", "t", "g", "r", "e", "s">>
    ELSE req.Config.Database.s

\* C8: for every host string made of an optional scheme, a hostname, an
\* optional numeric port, an optional database and an optional trailing
\* slash, Configure resolves that hostname, the embedded port if there is one
\* and else the configured or default port, and the embedded database if
\* there is one and else the configured or default database.
C8_EmbeddedTargetWins ==
    op = "Configure" =>
        \A sc \in Schemes, h \in HostNames, p \in Optional(NumericPorts),
           d \in Optional(DatabaseNames), sl \in BOOLEAN :
            req.Config.Host.s =
                HostString(sc, h, IF p = <<>> THEN <<>> ELSE <<p[1].text>>, d, sl)
            => conn = <<[hostname |-> h,
                         port     |-> IF p = <<>> THEN ConfiguredPort ELSE p[1].number,
                         database |-> IF d = <<>> THEN ConfiguredDatabase ELSE d[1]]>>

\* the example of the specification: embedded 6543 and mydb win over the
\* configured 5432 and postgres
C8_Witness ==
    /\ op = "Configure"
    /\ req.Config.Host.s = ExampleHost
    /\ req.Config.Port = Int64Value(5432)
    /\ req.Config.Database = StringValue(DefaultDatabase)
    /\ conn = <<[hostname |-> <<"d", "b", ".", "e", "x", "a", "m", "p", "l", "e", ".", "c", "o">>,
                 port |-> 6543,
                 database |-> <<"m", "y", "d", "b">>]>>

\* C9: a non-numeric embedded port raises no diagnostic of its own (with pool
\* and ping succeeding there is none at all), the configured or default port
\* is resolved, and an embedded database is still applied.
C9_MalformedPortIgnored ==
    op = "Configure" =>
        \A sc \in Schemes, h \in HostNames, p \in MalformedPorts,
           d \in Optional(DatabaseNames), sl \in BOOLEAN :
            req.Config.Host.s = HostString(sc, h, <<p>>, d, sl)
            => /\ conn = <<[hostname |-> h,
                            port     |-> ConfiguredPort,
                            database |-> IF d = <<>> THEN ConfiguredDatabase ELSE d[1]]>>
               /\ (req.new.err = NoErr /\ req.ping.err = NoErr) => diags = <<>>
               /\ \A i \in 1..Len(diags) :
                     diags[i].detail \in { NewErrorDetail(req.new), PingErrorDetail(req.ping) }

C9_Witness ==
    /\ op = "Configure"
    /\ req.Config.Host.s =
           <<"p", "o", "s", "t", "g", "r", "e", "s", ":", "5", "4", "a", "/", "m", "y", "d", "b">>
    /\ req.Config.Port = Int64Value(6000)
    /\ conn = <<[hostname |-> <<"p", "o", "s", "t", "g", "r", "e", "s">>,
                 port |-> 6000,
                 database |-> <<"m", "y", "d", "b">>]>>
    /\ diags = <<>>
    /\ providerData # <<>>

TimedOut(res) == res.err # NoErr /\ res.ctxErr = "DeadlineExceeded"
FailedOtherwise(res) == res.err # NoErr /\ res.ctxErr # "DeadlineExceeded"

\* C10: a pool creation or a ping that runs into its 10 second deadline fails
\* Configure with the timeout message of that step; any other failure of
\* either step fails it with a message that is no timeout message and that
\* carries the error; so a timeout message stands for a timeout only.
C10_TimeoutMessageDistinct ==
    op = "Configure" =>
        /\ TimedOut(req.new) =>
              diags = <<ErrorDiag("Unable to connect to PostgreSQL", PoolTimeoutDetail)>>
        /\ (req.new.err = NoErr /\ TimedOut(req.ping)) =>
              diags = <<ErrorDiag("Unable to connect to PostgreSQL", PingTimeoutDetail)>>
        /\ FailedOtherwise(req.new) =>
              /\ Len(diags) = 1
              /\ diags[1].severity = "error"
              /\ diags[1].detail \notin { PoolTimeoutDetail, PingTimeoutDetail }
              /\ diags[1].detail[Len(diags[1].detail)] = req.new.err
        /\ (req.new.err = NoErr /\ FailedOtherwise(req.ping)) =>
              /\ Len(diags) = 1
              /\ diags[1].severity = "error"
              /\ diags[1].detail \notin { PoolTimeoutDetail, PingTimeoutDetail }
              /\ diags[1].detail[Len(diags[1].detail)] = req.ping.err
        /\ \A i \in 1..Len(diags) :
              /\ diags[i].detail = PoolTimeoutDetail => TimedOut(req.new)
              /\ diags[i].detail = PingTimeoutDetail => TimedOut(req.ping)

C10_Witness ==
    /\ op = "Configure"
    /\ req.new.err = NoErr
    /\ TimedOut(req.ping)
    /\ diags = <<ErrorDiag("Unable to connect to PostgreSQL", PingTimeoutDetail)>>
    /\ providerData = <<>>

\* the positions of the calls of fn among the calls of the last handler
CallsOf(fn) == { i \in 1..Len(calls) : calls[i].fn = fn }

\* C13: every run of Configure opens the pool once and pings at most once,
\* the ping only on a pool that was opened; the pool and the version are
\* published exactly when both succeeded, without a diagnostic; when either
\* fails nothing is published and an error diagnostic is raised, and a pool
\* whose ping failed is closed after the ping.
C13_PublishedOnlyAfterPing ==
    op = "Configure" =>
        /\ CallsOf("pgxpool.New") = {1}
        /\ CallsOf("Ping") = IF calls[1].err = NoErr THEN {2} ELSE {}
        /\ providerData # <<>> <=>
              (Len(calls) = 2 /\ calls[1].err = NoErr /\ calls[2].err = NoErr)
        /\ providerData # <<>> =>
              /\ providerData = <<[Pool |-> "open", Version |-> version]>>
              /\ pool = "open"
              /\ diags = <<>>
        /\ providerData = <<>> => HasError(diags)
        /\ calls[1].err # NoErr =>
              /\ Len(calls) = 1
              /\ pool = "none"
        /\ (calls[1].err = NoErr /\ calls[2].err # NoErr) =>
              /\ CallsOf("Close") = {3}
              /\ Len(calls) = 3
              /\ pool = "closed"
        /\ (calls[1].err = NoErr /\ calls[2].err = NoErr) => CallsOf("Close") = {}

\* a ping that is refused on a pool that was opened
C13_Witness ==
    /\ op = "Configure"
    /\ Len(calls) = 3
    /\ calls[1].err = NoErr
    /\ calls[2].fn = "Ping"
    /\ calls[2].err = "connection refused"
    /\ calls[3].fn = "Close"
    /\ pool = "closed"
    /\ providerData = <<>>
    /\ HasError(diags)

-----------------------------------------------------------------------------
(* Properties of the resource handlers, under Spec *)

Range(seq) == { seq[i] : i \in 1..Len(seq) }

\* the last handler was a successful Read that left the instance tracked, and
\* it came right after a successful run of a handler among ops
ReadRightAfter(ops) ==
    /\ op = "Read"
    /\ Ok
    /\ tracked # <<>>
    /\ prev.op \in ops
    /\ prev.ok

\* C1: a successful Create or Update whose plan has a non-empty description d
\* without the footer text sends d with the footer appended, and a Read right
\* after it (same provider version) leaves exactly d as the tracked
\* description.
C1_DescriptionRoundTrip ==
    /\ (op \in {"Create", "Update"} /\ Ok) =>
          LET d == req.Plan.Description
          IN  (~d.null /\ d.s # <<>> /\ ~Contains(d.s, FooterText(version))) =>
                  calls[1].args[Len(calls[1].args)] = d.s \o FooterText(version)
    /\ ReadRightAfter({"Create", "Update"}) =>
          LET d == prev.req.Plan.Description
          IN  (~d.null /\ d.s # <<>> /\ ~Contains(d.s, FooterText(version))) =>
                  tracked[1].Description = StringValue(d.s)

C1_Witness ==
    /\ ReadRightAfter({"Create"})
    /\ prev.req.Plan.Description = StringValue(<<"m", "y">>)
    /\ tracked[1].Description = StringValue(<<"m", "y">>)
    /\ \E row \in db : row.description = <<"m", "y">> \o FooterText(version)

\* C2: after a Create whose plan has a null or empty description, a Read
\* right after it leaves the tracked description null.
C2_MinimalDescriptionStaysNull ==
    ReadRightAfter({"Create"}) =>
        LET d == prev.req.Plan.Description
        IN  (d.null \/ d.s = <<>>) => tracked[1].Description = StringNull

\* C3: a Read that leaves the instance tracked leaves its value as it was, and
\* so does a change of the database behind the provider.
C3_ReadKeepsValue ==
    [][ (op' \in {"Read", "OutOfBand"} /\ tracked' # <<>>) =>
            /\ tracked # <<>>
            /\ tracked'[1].Value = tracked[1].Value ]_vars

\* a Read after the stored secret was changed behind the provider
C3_Witness ==
    /\ op = "Read"
    /\ Ok
    /\ prev.op = "OutOfBand"
    /\ tracked # <<>>
    /\ tracked[1].Value = StringValue(<<"v1">>)
    /\ \E row \in RowsById(tracked[1].ID.s) : row.secret = <<"v-oob">>

\* C4: a Read whose query finds no row for the tracked id (and does not fail
\* otherwise) removes the instance from the tracked state and raises no
\* diagnostic.
C4_ReadOfMissingRowRemoves ==
    (op = "Read" /\ RowsById(calls[1].args[1]) = {} /\ calls[1].err \notin DatabaseErrors) =>
        /\ calls[1].err = ErrNoRows
        /\ tracked = <<>>
        /\ diags = <<>>

C4_Witness ==
    /\ op = "Read"
    /\ prev.op = "OutOfBand"
    /\ calls[1].err = ErrNoRows
    /\ db = {}
    /\ tracked = <<>>
    /\ diags = <<>>

\* C5: an import by a name the lookup finds no row for raises the error
\* "Secret not found" and leaves the tracked state as it was; a lookup that
\* fails otherwise raises an error and leaves the tracked state as it was.
C5_FailedImportWritesNothing ==
    [][ op' = "ImportState" =>
            /\ RowsByName(req'.ID) = {} => calls'[1].err # NoErr
            /\ calls'[1].err = ErrNoRows =>
                  /\ diags' = <<ErrorDiag("Secret not found",
                                          <<"No secret found with name: ", req'.ID>>)>>
                  /\ tracked' = tracked
            /\ calls'[1].err \in DatabaseErrors =>
                  /\ HasError(diags')
                  /\ tracked' = tracked ]_vars

C5_Witness ==
    /\ op = "ImportState"
    /\ req.ID = <<"n2">>
    /\ calls[1].err = ErrNoRows
    /\ Len(diags) = 1
    /\ diags[1].summary = "Secret not found"
    /\ tracked = <<>>

\* id, name, description and key_id of a state
Metadata(state) ==
    [ID |-> state.ID, Name |-> state.Name,
     Description |-> state.Description, KeyID |-> state.KeyID]

\* what Create followed by Read tracks of a row this provider wrote with the
\* non-empty description d
MetadataOf(row, d) ==
    [ID |-> StringValue(row.id), Name |-> StringValue(row.name),
     Description |-> StringValue(d), KeyID |-> KeyIDFrom(row.key_id)]

\* C6: a successful import seeds the id of the row of that name and the name,
\* and nothing else; for a row this provider wrote with a non-empty
\* description, Create then Read and Import by its name then Read track the
\* same id, name, description and key_id, and the import does not bring the
\* value.
C6_ImportThenReadMatchesCreate ==
    /\ (op = "ImportState" /\ Ok) =>
          \E row \in RowsByName(req.ID) :
              tracked = <<[ID |-> StringValue(row.id), Name |-> StringValue(req.ID),
                           Value |-> StringNull, KeyID |-> StringNull,
                           Description |-> StringNull]>>
    /\ (op = "Read" /\ prev.op = "ImportState" /\ prev.ok
          /\ calls[1].err \notin DatabaseErrors) =>
          /\ tracked # <<>>
          /\ tracked[1].Value = StringNull
    /\ ReadRightAfter({"Create"}) =>
          LET d == prev.req.Plan.Description
          IN  (~d.null /\ d.s # <<>>) =>
                  \E row \in RowsByName(prev.req.Plan.Name.s) :
                      /\ row.description = d.s \o FooterText(version)
                      /\ Metadata(tracked[1]) = MetadataOf(row, d.s)
    /\ ReadRightAfter({"ImportState"}) =>
          \A row \in RowsByName(prev.req.ID), d \in UserDescriptions :
              row.description = d \o FooterText(version) =>
                  Metadata(tracked[1]) = MetadataOf(row, d)

C6_Witness ==
    /\ ReadRightAfter({"ImportState"})
    /\ prev.req.ID = <<"n1">>
    /\ \E row \in db : row.description = <<"m", "y">> \o FooterText(version)
    /\ tracked = <<[ID |-> StringValue(<<"1">>), Name |-> StringValue(<<"n1">>),
                    Value |-> StringNull, KeyID |-> StringValue(<<"k-db">>),
                    Description |-> StringValue(<<"m", "y">>)]>>

\* C7: a Create whose plan has a key_id logs the warning, calls create_secret
\* with the value, the name and the description with footer and nothing
\* else, and when it succeeds saves as key_id what the lookup returned for the
\* new row (null when the row has none or the lookup failed), not the
\* requested one.
C7_RequestedKeyIDIgnored ==
    (op = "Create" /\ ~req.Plan.KeyID.null) =>
        /\ LogRecord("warn", "key_id parameter is not yet fully supported in create operation")
              \in Range(logs)
        /\ calls[1].sql = CreateSQL
        /\ Len(calls[1].args) = 3
        /\ calls[1].args[1] = req.Plan.Value.s
        /\ calls[1].args[2] = req.Plan.Name.s
        /\ req.Plan.KeyID.s \notin Range(calls[1].args)
        /\ Ok =>
              /\ tracked # <<>>
              /\ tracked[1].KeyID # req.Plan.KeyID
              /\ calls[2].sql = KeyIDSQL
              /\ calls[2].args = <<tracked[1].ID.s>>
              /\ \E row \in RowsById(tracked[1].ID.s) :
                     tracked[1].KeyID = IF calls[2].err = NoErr
                                        THEN KeyIDFrom(row.key_id) ELSE StringNull

C7_Witness ==
    /\ op = "Create"
    /\ Ok
    /\ req.Plan.KeyID = StringValue(<<"k-req">>)
    /\ tracked # <<>>
    /\ tracked[1].KeyID = StringValue(<<"k-db">>)

\* C11: when the statement of Create, Update or Delete returns an error, the
\* handler raises one error diagnostic that ends with that error, makes no
\* further call, and writes no state: the tracked state is the one before
\* (for Create: none).
C11_FailedStatementAborts ==
    [][ (op' \in {"Create", "Update", "Delete"} /\ calls'[1].err # NoErr) =>
            /\ Len(calls') = 1
            /\ Len(diags') = 1
            /\ diags'[1].severity = "error"
            /\ diags'[1].detail[Len(diags'[1].detail)] = calls'[1].err
            /\ tracked' = tracked
            /\ op' = "Create" => tracked' = <<>> ]_vars

\* a failed Update whose plan differs from the state that stays tracked
C11_Witness ==
    /\ op = "Update"
    /\ calls[1].err \in DatabaseErrors
    /\ Len(calls) = 1
    /\ HasError(diags)
    /\ tracked # <<>>
    /\ tracked[1].Description = StringNull
    /\ req.Plan.Description = StringValue(<<"m", "y">>)

\* C12: Create makes at most two calls, create_secret and then the key_id
\* lookup by the returned id; when create_secret succeeds and the lookup
\* fails, Create raises no diagnostic, logs a warning and saves the id of the new row, the
\* planned name, value and description, and a null key_id (not unknown, not
\* the requested one).
C12_KeyIDLookupFailureSavesNull ==
    op = "Create" =>
        /\ Len(calls) \in {1, 2}
        /\ calls[1].sql = CreateSQL
        /\ Len(calls) = 2 =>
              /\ calls[1].err = NoErr
              /\ calls[2].sql = KeyIDSQL
        /\ (Len(calls) = 2 /\ calls[2].err # NoErr) =>
              /\ diags = <<>>
              /\ LogRecord("warn", "Unable to read key_id after creation, setting to null")
                    \in Range(logs)
              /\ tracked = <<[ID |-> StringValue(calls[2].args[1]),
                              Name |-> req.Plan.Name,
                              Value |-> req.Plan.Value,
                              KeyID |-> StringNull,
                              Description |-> req.Plan.Description]>>
              /\ ~tracked[1].KeyID.unknown
              /\ tracked[1].KeyID # req.Plan.KeyID
              /\ \E row \in RowsByName(req.Plan.Name.s) :
                     /\ calls[2].args = <<row.id>>
                     /\ row.secret = req.Plan.Value.s

\* the lookup fails for a row that has a key_id, with none requested
C12_Witness ==
    /\ op = "Create"
    /\ Len(calls) = 2
    /\ calls[2].err \in DatabaseErrors
    /\ req.Plan.KeyID = StringUnknown
    /\ diags = <<>>
    /\ tracked # <<>>
    /\ tracked[1].KeyID = StringNull
    /\ \E row \in RowsById(tracked[1].ID.s) : row.key_id = NullStringOf(<<"k-db">>)

\* the one statement of Read, Update and Delete
StatementOf(name) ==
    CASE name = "Read" -> ReadSQL
      [] name = "Update" -> UpdateSQL
      [] name = "Delete" -> DeleteSQL

\* C14: a successful Create tracks the id of the row it created; Read,
\* Update and Delete each make one statement, whose key is the id tracked
\* before (the only argument of the SELECT and of the DELETE, the first of
\* update_secret); and a Read or an Update that leaves the instance tracked
\* leaves its id as it was.
C14_TrackedIDIsTheKey ==
    [][ /\ (op' = "Create" /\ tracked' # <<>>) =>
              \E row \in db' \ db :
                  /\ tracked'[1].ID = StringValue(row.id)
                  /\ calls'[2].args = <<row.id>>
        /\ op' \in {"Read", "Update", "Delete"} =>
              /\ tracked # <<>>
              /\ Len(calls') = 1
              /\ calls'[1].sql = StatementOf(op')
              /\ calls'[1].args[1] = tracked[1].ID.s
              /\ op' \in {"Read", "Delete"} => calls'[1].args = <<tracked[1].ID.s>>
        /\ (op' \in {"Read", "Update"} /\ tracked' # <<>>) =>
              tracked'[1].ID = tracked[1].ID ]_vars

\* an Update after a Read, both on the id the Create returned
C14_Witness ==
    /\ op = "Update"
    /\ Ok
    /\ prev.op = "Read"
    /\ prev.ok
    /\ tracked # <<>>
    /\ tracked[1].ID = StringValue(NewSecretID(1))
    /\ calls[1].args[1] = NewSecretID(1)
    /\ \E row \in RowsById(NewSecretID(1)) :
           row.description = <<"m", "y">> \o FooterText(version)

=============================================================================
